---- MODULE Spec2Model ----
(***************************************************************************)
(* Selection-event builders of the randomized selective-inference library: *)
(* randomized_slope (selection/SLOPE/slope.py) and marginal_screening      *)
(* (selection/randomized/marginal_screening.py).                           *)
(*                                                                         *)
(* One instance of either class is modelled: its attributes are the        *)
(* variables, its methods the actions.  numpy arrays are functions over    *)
(* 0..n-1 (the code's 0-based indices are kept), Python lists are          *)
(* sequences, an optional value is None (<<>>) or Some(v) (<<v>>).         *)
(* Real numbers are integers in a fixed unit; the randomizer precision,    *)
(* which is inverted, is an exact fraction.                                *)
(*                                                                         *)
(* External collaborators (the convex solver, the loss model, the          *)
(* sampler class) are not in the repository: the solver is computed for    *)
(* the Gaussian loss with an orthonormal design, and quantities that are   *)
(* linear images of the design matrix are kept as their coefficients.      *)
(***************************************************************************)
EXTENDS Integers, Sequences, FiniteSets, TLC

----------------------------------------------------------------------------
\* Bounds of the model.

\* number of features p of the instance in Spec and SpecQuery
NFeature == 2
\* largest magnitude of a solver coordinate in Spec and SpecQuery
MaxMag == 1
\* largest magnitude of an observed score (marginal screening)
MaxVal == 3
\* largest screening threshold
MaxThreshold == 2
\* largest magnitude of a perturbation coordinate
MaxPerturb == 1
\* largest randomizer scale
MaxScale == 2
\* largest common feature weight of a SLOPE instance
MaxWeight == 1
\* cap on the count of randomizer draws
MaxSamples == 2
\* number of features p in SpecCluster
ClusterLen == 4
\* largest magnitude of a solver coordinate in SpecCluster
ClusterMag == 3
\* number of features p in SpecSimes
SimesLen == 3
\* largest magnitude of a statistic X.T.dot(y), in units of 0.5, in SpecSimes
SimesMag == 2
\* largest level alpha, in quarters, in SpecSimes
MaxAlphaQuarters == 4
MaxDispersion == 2

----------------------------------------------------------------------------
\* Values and numpy primitives.

None == <<>>
Some(v) == <<v>>

Abs(x) == IF x < 0 THEN -x ELSE x
Sign(x) == IF x > 0 THEN 1 ELSE IF x < 0 THEN -1 ELSE 0
BoolInt(b) == IF b THEN 1 ELSE 0

ALen(a) == Cardinality(DOMAIN a)
FromList(s) == [i \in 0..(Len(s) - 1) |-> s[i + 1]]
Zeros(n) == [i \in 0..(n - 1) |-> 0]
Vectors(n, m) == [0..(n - 1) -> (-m)..m]
ConstVectors(n, lo, hi) == {[i \in 0..(n - 1) |-> w] : w \in lo..hi}

MinOf(S) == CHOOSE v \in S : \A w \in S : v <= w
MaxOf(S) == CHOOSE v \in S : \A w \in S : w <= v

\* the elements of a finite set of integers as an ascending list
RECURSIVE SortedList(_)
SortedList(S) ==
    IF S = {} THEN <<>>
    ELSE <<MinOf(S)>> \o SortedList(S \ {MinOf(S)})

\* a[mask] for a boolean mask: the entries at the True positions, in order
Compress(a, mask) ==
    LET idx == SortedList({i \in DOMAIN a : mask[i]})
    IN  [k \in 0..(Len(idx) - 1) |-> a[idx[k + 1]]]

\* mask.sum()
CountTrue(mask) == Cardinality({i \in DOMAIN mask : mask[i]})

\* np.unique: the distinct entries, ascending
np_unique(a) == FromList(SortedList({a[i] : i \in DOMAIN a}))

\* np.sort: ascending, duplicates kept
RECURSIVE SortRest(_, _)
SortRest(a, rest) ==
    IF rest = {} THEN <<>>
    ELSE LET m == MinOf({a[i] : i \in rest})
             k == MinOf({i \in rest : a[i] = m})
         IN  <<m>> \o SortRest(a, rest \ {k})
np_sort(a) == FromList(SortRest(a, DOMAIN a))

\* a[::-1]
Reversed(a) == [i \in DOMAIN a |-> a[ALen(a) - 1 - i]]

\* np.argsort(-np.fabs(soln)): the default sort is not stable, so every
\* ordering of the indices by descending magnitude is a possible result
RECURSIVE ArgSortDesc(_, _)
ArgSortDesc(soln, rest) ==
    IF rest = {} THEN {<<>>}
    ELSE LET m == MaxOf({Abs(soln[i]) : i \in rest})
             tops == {i \in rest : Abs(soln[i]) = m}
         IN  UNION {{<<i>> \o s : s \in ArgSortDesc(soln, rest \ {i})} : i \in tops}
argsort_neg_fabs(soln) == {FromList(s) : s \in ArgSortDesc(soln, DOMAIN soln)}

\* matrices are arrays of rows
NRows(M) == ALen(M)
NCols(M) == IF ALen(M) = 0 THEN 0 ELSE ALen(M[0])

\* Exact fractions <<n, d>>, d > 0, in lowest terms.
RECURSIVE GCD(_, _)
GCD(a, b) == IF b = 0 THEN a ELSE GCD(b, a % b)
FracOf(n, d, g) == IF d < 0 THEN <<(-n) \div g, (-d) \div g>> ELSE <<n \div g, d \div g>>
Frac(n, d) == FracOf(n, d, GCD(Abs(n), Abs(d)))
FAdd(a, b) == Frac(a[1] * b[2] + b[1] * a[2], a[2] * b[2])
FMul(a, b) == Frac(a[1] * b[1], a[2] * b[2])
FDiv(a, b) == Frac(a[1] * b[2], a[2] * b[1])
FZero == Frac(0, 1)
FOne == Frac(1, 1)

\* f[0] + ... + f[n-1] over fractions
RECURSIVE FSum(_, _)
FSum(f, n) == IF n = 0 THEN FZero ELSE FAdd(FSum(f, n - 1), f[n - 1])

\* f[0] + ... + f[n-1] over integers
RECURSIVE ISum(_, _)
ISum(f, n) == IF n = 0 THEN 0 ELSE ISum(f, n - 1) + f[n - 1]

\* L.T.dot(L) for an integer matrix L with p rows and k columns
Gram(L, p, k) ==
    [a \in 0..(k - 1) |-> [b \in 0..(k - 1) |->
        ISum([i \in 0..(p - 1) |-> L[i][a] * L[i][b]], p)]]

\* the product of two square matrices of fractions
FMatMul(A, B) ==
    [i \in DOMAIN A |-> [j \in DOMAIN A |->
        FSum([m \in DOMAIN A |-> FMul(A[i][m], B[m][j])], ALen(A))]]

FIdentity(k) == [i \in 0..(k - 1) |-> [j \in 0..(k - 1) |-> IF i = j THEN FOne ELSE FZero]]
FScaledIdentity(k, q) == [i \in 0..(k - 1) |-> [j \in 0..(k - 1) |-> IF i = j THEN q ELSE FZero]]

\* M without row r and column c
Minor(M, r, c) ==
    [i \in 0..(ALen(M) - 2) |-> [j \in 0..(ALen(M) - 2) |->
        M[IF i < r THEN i ELSE i + 1][IF j < c THEN j ELSE j + 1]]]

\* determinant, by expansion along the first row
RECURSIVE FDet(_)
FDet(M) ==
    IF ALen(M) = 0 THEN FOne
    ELSE FSum([j \in DOMAIN M |->
                  FMul(Frac(IF j % 2 = 0 THEN 1 ELSE -1, 1),
                       FMul(M[0][j], FDet(Minor(M, 0, j))))], ALen(M))

Cofactor(M, i, j) ==
    FMul(Frac(IF (i + j) % 2 = 0 THEN 1 ELSE -1, 1), FDet(Minor(M, i, j)))

\* np.linalg.inv: the exact inverse; singular matrices raise LinAlgError
InverseBy(M, det) ==
    IF det = FZero THEN [singular |-> TRUE, inv |-> <<>>]
    ELSE [singular |-> FALSE,
          inv |-> [i \in DOMAIN M |-> [j \in DOMAIN M |-> FDiv(Cofactor(M, j, i), det)]]]
linalg_inv(M) == InverseBy(M, FDet(M))

----------------------------------------------------------------------------
\* The instance.

VARIABLES
    kind,                 \* "slope" or "screening": the class of the instance
    nfeature,             \* self.nfeature
    loglike,              \* self.loglike (slope): the instance's X.T.dot(y)
    nobs,                 \* n of self.loglike.data's X.shape (slope)
    feature_weights,      \* self.feature_weights (slope): the common weight
    threshold,            \* self.threshold (marginal_screening)
    prec,                 \* self.randomizer.cov_prec[1], a fraction <<n, d>>
    _initial_omega,       \* self._initial_omega
    nsample,              \* number of self.randomizer.sample() calls so far
    quad,                 \* linear term of the quadratic handed to the solver (slope)
    initial_soln,         \* self.initial_soln
    _active,              \* self._active (slope)
    _unpenalized,         \* self._unpenalized (slope)
    _overall,             \* self._overall (slope)
    _selected,            \* self._selected (marginal_screening)
    selection_variable,   \* self.selection_variable
    observed_opt_state,   \* self.observed_opt_state
    num_opt_var,          \* self.num_opt_var
    observed_score_state, \* self.observed_score_state
    score_transform,      \* self.score_transform[0] (slope)
    opt_transform,        \* self.opt_transform
    sampler,              \* self.sampler
    inputs,               \* the data the functions of Simes_selection.py are called on
    last                  \* the last call: its name, arguments, outcome and value

vars == <<kind, nfeature, loglike, nobs, feature_weights, threshold, prec, _initial_omega,
          nsample, quad, initial_soln, _active, _unpenalized, _overall, _selected,
          selection_variable, observed_opt_state, num_opt_var,
          observed_score_state, score_transform, opt_transform, sampler, inputs, last>>

fitted == <<initial_soln, _active, _unpenalized, _overall, _selected,
            selection_variable, observed_opt_state, num_opt_var,
            observed_score_state, score_transform, opt_transform, sampler>>

ctor == <<kind, nfeature, loglike, nobs, feature_weights, threshold, prec, inputs>>

\* the perturbation vectors that callers pass and the randomizer draws
Perturbs(p) == ConstVectors(p, -MaxPerturb, MaxPerturb)

----------------------------------------------------------------------------
\* randomized_slope.fit

\* a fit that draws afresh whenever no perturbation is passed
slope_omega_resample(stored, perturb, drawn) ==
    IF perturb # None
    THEN [omega |-> perturb, sampled |-> FALSE]
    ELSE [omega |-> Some(drawn), sampled |-> TRUE]

\* lines 59-62: the perturbation the fit works with.  drawn is the value
\* self.randomizer.sample() returns if it is called.
slope_omega(stored, perturb, drawn) ==
    LET supplied == IF perturb # None THEN perturb ELSE stored
    IN  IF supplied = None
        THEN [omega |-> Some(drawn), sampled |-> TRUE]
        ELSE [omega |-> supplied, sampled |-> FALSE]

\* lines 64-66: problem.solve(quad).  The solver is external; the instances
\* modelled are the Gaussian losses with an orthonormal design, no ridge term
\* and equal feature weights w, for which the minimiser of
\*   1/2 |y - X b|^2 + w |b|_1 - <omega, b>
\* is the soft thresholding of X.T.dot(y) + omega at w, coordinate by
\* coordinate.
slope_solve(Xty, w, omega) ==
    [i \in DOMAIN Xty |->
        Sign(Xty[i] + omega[i]) * (IF Abs(Xty[i] + omega[i]) > w
                                  THEN Abs(Xty[i] + omega[i]) - w ELSE 0)]

\* the magnitudes in descending order with the ties kept
initial_scalings_with_ties(soln, active) ==
    LET restricted == Compress(soln, active)
        fabs == [i \in DOMAIN restricted |-> Abs(restricted[i])]
    IN  Reversed(np_sort(fabs))

\* line 85: np.sort(np.unique(np.fabs(self.initial_soln[active])))[::-1]
initial_scalings(soln, active) ==
    LET restricted == Compress(soln, active)
        fabs == [i \in DOMAIN restricted |-> Abs(restricted[i])]
    IN  Reversed(np_sort(np_unique(fabs)))

\* lines 114-124: the body of the cluster loop from iteration j on.  st holds
\* the loop's locals cur_indx_array, cur_indx, pointer, signs_cluster.
RECURSIVE cluster_loop(_, _, _, _, _)
cluster_loop(j, st, sorted_soln, soln, indices) ==
    LET p == ALen(soln)
    IN  IF j >= p - 1 THEN st
        ELSE IF Abs(sorted_soln[j + 1]) # Abs(sorted_soln[st.cur_indx])
        THEN LET start == st.cur_indx_array[st.pointer + 1]
                 sign_vec == [i \in 0..(p - 1) |->
                                 IF start <= i /\ i <= j
                                 THEN Sign(soln[indices[i]]) ELSE 0]
                 nxt == [cur_indx_array |-> Append(st.cur_indx_array, j + 1),
                         cur_indx |-> j + 1,
                         pointer |-> st.pointer + 1,
                         signs_cluster |-> Append(st.signs_cluster, sign_vec)]
             IN  IF sorted_soln[j + 1] = 0 THEN nxt
                 ELSE cluster_loop(j + 1, nxt, sorted_soln, soln, indices)
        ELSE cluster_loop(j + 1, st, sorted_soln, soln, indices)

\* line 126: np.asarray(signs_cluster).T: a p x c matrix, or the empty 1-d
\* array when the list is empty
asarray_T(lst, p) ==
    IF lst = <<>> THEN <<>>
    ELSE [i \in 0..(p - 1) |-> [c \in 0..(Len(lst) - 1) |-> lst[c + 1][i]]]

\* lines 84, 109-126: the sorted solution, the loop, the matrix of sign vectors
signs_cluster_of(soln, indices) ==
    LET p == ALen(soln)
        sorted_soln == [j \in 0..(p - 1) |-> soln[indices[j]]]
        st0 == [cur_indx_array |-> <<0>>, cur_indx |-> 0, pointer |-> 0,
                signs_cluster |-> <<>>]
    IN  asarray_T(cluster_loop(0, st0, sorted_soln, soln, indices).signs_cluster, p)

\* line 127: X[:, indices].dot(signs_cluster) is X.dot(coef) with
\* coef[indices[pos]] = signs_cluster[pos]; the shapes are not aligned (the
\* product raises ValueError) when signs_cluster is the empty 1-d array
X_clustered(indices, signs_cluster) ==
    IF NRows(signs_cluster) # ALen(indices)
    THEN [aligned |-> FALSE, coef |-> <<>>]
    ELSE [aligned |-> TRUE,
          coef |-> [i \in DOMAIN indices |->
                       signs_cluster[CHOOSE pos \in DOMAIN indices : indices[pos] = i]]]

\* lines 68-77: signs, active set and the selection variable
slope_selection(soln) ==
    LET p == ALen(soln)
        active_signs == [i \in 0..(p - 1) |-> Sign(soln[i])]
        active == [i \in 0..(p - 1) |-> active_signs[i] # 0]
        overall == [i \in 0..(p - 1) |-> BoolInt(active[i]) > 0]
    IN  [active_signs |-> active_signs,
         _active |-> active,
         _unpenalized |-> [i \in 0..(p - 1) |-> FALSE],
         _overall |-> overall,
         selection_variable |-> [sign |-> active_signs, variables |-> overall]]

\* X.T.dot(X) and W of the instances modelled: an orthonormal design and the
\* Gaussian loss, whose hessian W is 1
design_gram(i, j) == IF i = j THEN 1 ELSE 0

\* lines 101-103: np.dot(X.T, X[:, active] * W[:, None]), a p x |active| matrix
hessian_columns(p, cols) ==
    [i \in 0..(p - 1) |-> [c \in 0..(Len(cols) - 1) |-> design_gram(i, cols[c + 1])]]

hessian_active(p, active) ==
    hessian_columns(p, SortedList({j \in DOMAIN active : active[j]}))

\* lines 150-167: the constraint -I of dimension num_opt_var, the covariance
\* of the dimension of opt_linear's columns.  built says whether the sampler
\* classes accept a constraint whose dimension differs from its covariance's.
slope_outcome(scalings, Xc, built) ==
    IF ~Xc.aligned THEN "ValueError"
    ELSE IF NCols(Xc.coef) # ALen(scalings) /\ ~built THEN "ValueError"
    ELSE "ok"

\* The assignments of fit, in the order of the code; an error leaves what
\* was assigned before it.  opt_linear = -X.T.dot(X_clustered) is kept as
\* X_clustered's coefficients; the score, a product of the design with the
\* refitted coefficients, as the mask of the refit.
slope_commit(perturb, om, soln, sel, scalings, Xc, outcome) ==
    /\ IF om.sampled THEN nsample < MaxSamples ELSE TRUE
    /\ _initial_omega' = om.omega
    /\ nsample' = IF om.sampled THEN nsample + 1 ELSE nsample
    /\ quad' = Some([i \in DOMAIN soln |-> -om.omega[1][i]])
    /\ initial_soln' = soln
    /\ _active' = sel._active
    /\ _unpenalized' = sel._unpenalized
    /\ _overall' = sel._overall
    /\ selection_variable' = sel.selection_variable
    /\ observed_opt_state' = scalings
    /\ num_opt_var' = ALen(scalings)
    /\ observed_score_state' = [refit |-> sel._overall]
    /\ score_transform' = hessian_active(ALen(soln), sel._active)
    /\ opt_transform' = IF ~Xc.aligned THEN opt_transform
                        ELSE Some([linear |-> Xc.coef, offset |-> "initial_subgrad"])
    /\ sampler' = IF outcome = "ok"
                  THEN Some([linear_part |-> ALen(scalings),
                             covariance |-> NCols(Xc.coef),
                             initial_point |-> scalings,
                             selection_info |-> sel.selection_variable])
                  ELSE sampler
    /\ last' = [op |-> "fit", args |-> perturb, outcome |-> outcome,
                value |-> IF outcome = "ok" THEN sel.active_signs ELSE None]
    /\ UNCHANGED <<ctor, _selected>>

slope_fit_with(perturb, om, soln, sel, scalings, Xc, built) ==
    /\ IF Xc.aligned /\ NCols(Xc.coef) # ALen(scalings) THEN TRUE ELSE built
    /\ slope_commit(perturb, om, soln, sel, scalings, Xc,
                    slope_outcome(scalings, Xc, built))

slope_fit_sel(perturb, om, soln, sel, indices, built) ==
    slope_fit_with(perturb, om, soln, sel,
                   initial_scalings(soln, sel._active),
                   X_clustered(indices, signs_cluster_of(soln, indices)),
                   built)

slope_fit_soln(perturb, om, soln, indices, built) ==
    slope_fit_sel(perturb, om, soln, slope_selection(soln), indices, built)

slope_fit_om(perturb, om, indices, built) ==
    slope_fit_soln(perturb, om, slope_solve(loglike, feature_weights, om.omega[1]),
                   indices, built)

\* randomized_slope.fit.  indices is what argsort returns, drawn what the
\* randomizer would draw.
slope_fit(perturb, indices, drawn, built) ==
    /\ kind = "slope"
    /\ slope_fit_om(perturb, slope_omega(_initial_omega, perturb, drawn),
                    indices, built)

\* line 83: the results argsort can return in this fit
slope_indices(perturb, drawn) ==
    argsort_neg_fabs(slope_solve(loglike, feature_weights,
                                 slope_omega(_initial_omega, perturb, drawn).omega[1]))

----------------------------------------------------------------------------
\* marginal_screening.fit

\* lines 47-50: the perturbation the fit works with.  drawn is the value
\* self.randomizer.sample() returns if it is called.
screening_omega(stored, perturb, drawn) ==
    LET supplied == IF perturb # None THEN perturb ELSE stored
    IN  IF supplied = None
        THEN [omega |-> Some(drawn), sampled |-> TRUE]
        ELSE [omega |-> supplied, sampled |-> FALSE]

\* hard thresholding: the survivors keep their value
hard_threshold(z, t) == z * BoolInt(Abs(z) >= t)

\* line 54: np.sign(Z) * (np.fabs(Z) - threshold) * (np.fabs(Z) >= threshold)
soft_threshold(z, t) == Sign(z) * (Abs(z) - t) * BoolInt(Abs(z) >= t)

\* the signs of Z without the zeroing of the unselected coordinates
screening_sign_raw(Z, selected) == [i \in DOMAIN Z |-> Sign(Z[i])]

\* lines 60-62: sign = np.sign(Z); sign[self._not_selected] = 0
screening_sign(Z, selected) ==
    [i \in DOMAIN Z |-> IF selected[i] THEN Sign(Z[i]) ELSE 0]

\* lines 52-67 given Z and the soft-thresholded vector
screening_selection_of(Z, soft_thresh, selected) ==
    [Z |-> Z,
     initial_soln |-> soft_thresh,
     _selected |-> selected,
     active_signs |-> Compress([i \in DOMAIN Z |-> Sign(Z[i])], selected),
     selection_variable |-> [sign |-> screening_sign(Z, selected),
                             variables |-> selected],
     observed_opt_state |-> Compress([i \in DOMAIN Z |-> Abs(soft_thresh[i])], selected)]

screening_selection_soft(Z, soft_thresh) ==
    screening_selection_of(Z, soft_thresh, [i \in DOMAIN Z |-> soft_thresh[i] # 0])

screening_selection_Z(Z, thr) ==
    screening_selection_soft(Z, [i \in DOMAIN Z |-> soft_threshold(Z[i], thr[i])])

\* lines 52-67: Z = -(observed_score_state - omega), its soft thresholding,
\* the selected set, the signs and the optimization state
screening_selection(score, omega, thr) ==
    screening_selection_Z([i \in DOMAIN score |-> -(score[i] - omega[i])], thr)

\* the signs written on every row of a column
screening_opt_linear_dense(p, rows, active_signs) ==
    [i \in 0..(p - 1) |-> [c \in 0..(Len(rows) - 1) |-> active_signs[c]]]

\* lines 69-70: opt_linear[self._selected, :] = np.diag(active_signs);
\* rows lists the selected coordinates in increasing order
screening_opt_linear(p, rows, active_signs) ==
    [i \in 0..(p - 1) |-> [c \in 0..(Len(rows) - 1) |->
        IF rows[c + 1] = i THEN active_signs[c] ELSE 0]]

\* lines 71-73: active_signs * threshold on the selected rows, the
\* randomized score observed_score_state - omega on the others
screening_opt_offset(score, omega, thr, selected, rows, active_signs) ==
    [i \in DOMAIN score |->
        IF selected[i]
        THEN active_signs[CHOOSE c \in 0..(Len(rows) - 1) : rows[c + 1] = i] * thr[i]
        ELSE score[i] - omega[i]]

\* lines 80-83, the scalar-precision branch (the randomizer built by
\* __init__ is always isotropic): cond_precision and its inverse.  empty_ok
\* says whether np.linalg.inv accepts a 0 x 0 matrix.
screening_inverse(cond_precision, inverse, empty_ok) ==
    [cond_precision |-> cond_precision,
     cond_cov |-> inverse.inv,
     outcome |-> IF inverse.singular \/ (ALen(cond_precision) = 0 /\ ~empty_ok)
                 THEN "LinAlgError" ELSE "ok"]

screening_precision(cond_precision, empty_ok) ==
    screening_inverse(cond_precision, linalg_inv(cond_precision), empty_ok)

screening_conditional(gram, q, empty_ok) ==
    screening_precision([a \in DOMAIN gram |-> [b \in DOMAIN gram |->
                            FMul(Frac(gram[a][b], 1), q)]], empty_ok)

\* The assignments of fit, in the order of the code; an error of the
\* inversion leaves what was assigned before it.
screening_commit(perturb, om, sel, linear, offset, cond) ==
    /\ IF om.sampled THEN nsample < MaxSamples ELSE TRUE
    /\ _initial_omega' = om.omega
    /\ nsample' = IF om.sampled THEN nsample + 1 ELSE nsample
    /\ initial_soln' = sel.initial_soln
    /\ _selected' = sel._selected
    /\ selection_variable' = sel.selection_variable
    /\ observed_opt_state' = sel.observed_opt_state
    /\ num_opt_var' = ALen(sel.observed_opt_state)
    /\ opt_transform' = Some([linear |-> linear, offset |-> offset])
    /\ sampler' = IF cond.outcome = "ok"
                  THEN Some([linear_part |-> ALen(sel.active_signs),
                             covariance |-> cond.cond_cov,
                             precision |-> cond.cond_precision,
                             initial_point |-> sel.observed_opt_state,
                             selection_info |-> sel.selection_variable])
                  ELSE sampler
    /\ last' = [op |-> "fit", args |-> perturb, outcome |-> cond.outcome,
                value |-> IF cond.outcome = "ok" THEN sel._selected ELSE None]
    /\ UNCHANGED <<ctor, quad, _active, _unpenalized, _overall,
                   observed_score_state, score_transform>>

screening_fit_lin(perturb, om, sel, linear, offset, empty_ok) ==
    /\ IF ALen(sel.observed_opt_state) = 0 THEN TRUE ELSE empty_ok
    /\ screening_commit(perturb, om, sel, linear, offset,
           screening_conditional(
               Gram(linear, nfeature, ALen(sel.observed_opt_state)), prec, empty_ok))

screening_fit_rows(perturb, om, sel, rows, empty_ok) ==
    screening_fit_lin(perturb, om, sel,
        screening_opt_linear(nfeature, rows, sel.active_signs),
        screening_opt_offset(observed_score_state, om.omega[1], threshold,
                             sel._selected, rows, sel.active_signs),
        empty_ok)

screening_fit_sel(perturb, om, sel, empty_ok) ==
    screening_fit_rows(perturb, om, sel,
        SortedList({i \in DOMAIN sel._selected : sel._selected[i]}), empty_ok)

screening_fit_om(perturb, om, empty_ok) ==
    screening_fit_sel(perturb, om,
        screening_selection(observed_score_state, om.omega[1], threshold), empty_ok)

\* marginal_screening.fit
screening_fit(perturb, drawn, empty_ok) ==
    /\ kind = "screening"
    /\ screening_fit_om(perturb, screening_omega(_initial_omega, perturb, drawn),
                        empty_ok)

----------------------------------------------------------------------------
\* Construction.

Unset == <<>>

Constructed(k, p, perturb) ==
    /\ kind = k
    /\ nfeature = p
    /\ _initial_omega = perturb
    /\ nsample = 0
    /\ quad = None
    /\ initial_soln = Unset
    /\ _active = Unset
    /\ _unpenalized = Unset
    /\ _overall = Unset
    /\ _selected = Unset
    /\ selection_variable = Unset
    /\ observed_opt_state = Unset
    /\ num_opt_var = 0
    /\ score_transform = Unset
    /\ opt_transform = None
    /\ inputs = Unset
    /\ sampler = None
    /\ last = [op |-> "__init__", args |-> perturb, outcome |-> "ok",
               value |-> None]

\* precision of randomization.isotropic_gaussian((p,), scale): 1 / scale^2
isotropic_prec(scale) == Frac(1, scale * scale)

\* randomized_slope.__init__ (lines 40-50)
slope_init(Xty, n, w, scale, perturb) ==
    /\ Constructed("slope", ALen(Xty), perturb)
    /\ loglike = Xty
    /\ nobs = n
    /\ feature_weights = w
    /\ threshold = Unset
    /\ prec = isotropic_prec(scale)
    /\ observed_score_state = Unset

\* marginal_screening.__init__ (lines 33-40).  thr is the value of
\* randomized_stdev * ndist.ppf(1 - marginal_level / 2), which is >= 0 for
\* a level in (0, 1].
screening_init(observed_data, thr, scale, perturb) ==
    /\ Constructed("screening", ALen(observed_data), perturb)
    /\ loglike = Unset
    /\ nobs = Unset
    /\ feature_weights = Unset
    /\ observed_score_state = [i \in DOMAIN observed_data |-> -observed_data[i]]
    /\ threshold = thr
    /\ prec = isotropic_prec(scale)

\* the perturb argument of a call
PerturbArgs(p) == {None} \cup {Some(w) : w \in Perturbs(p)}

----------------------------------------------------------------------------
\* Inference calls.  A target bundle is kept as the coordinates its entries
\* estimate (observed_target) and its list of alternatives; the matrices of
\* the bundle are products of the design and are not computed.

Arange(n) == [i \in 0..(n - 1) |-> i]

\* a Python list of n copies of x
Repeat(x, n) == [i \in 1..n |-> x]

\* list comprehension over an array
ListOf(a) == [i \in 1..ALen(a) |-> a[i - 1]]

\* the one-sided alternatives the wrong way round
slope_alternative_swapped(s) ==
    IF s = 1 THEN "less" ELSE IF s = -1 THEN "greater" ELSE "KeyError"

\* slope.py line 244: {1: 'greater', -1: 'less'}[int(s)]
slope_alternative(s) ==
    IF s = 1 THEN "greater" ELSE IF s = -1 THEN "less" ELSE "KeyError"

\* slope.py line 236: active + unpenalized on boolean arrays
mask_or(a, b) == [i \in DOMAIN a |-> a[i] \/ b[i]]

\* slope.py lines 249-251: np.zeros_like(self._overall) with the entries
\* listed in features set to True
features_mask(overall, features) ==
    [i \in DOMAIN overall |-> \E k \in 1..Len(features) : features[k] = i]

\* np.linalg.inv of a nonsingular matrix with n rows
inverse_outcome(n, empty_ok) == IF n = 0 /\ ~empty_ok THEN "LinAlgError" ELSE "ok"

Bundle(outcome, target, alternatives) ==
    [outcome |-> outcome,
     value |-> IF outcome = "ok"
               THEN Some([observed_target |-> target, alternatives |-> alternatives])
               ELSE None]

\* slope.py line 239: Q = -score_linear[overall], as a matrix of fractions
neg_score_rows(score_linear, rows) ==
    [a \in 0..(Len(rows) - 1) |->
        [b \in DOMAIN score_linear[rows[a + 1]] |->
            Frac(-score_linear[rows[a + 1]][b], 1)]]

\* slope.py line 254: Qfeat = Xfeat.T.dot(self._W[:, None] * Xfeat)
Qfeat(rows) ==
    [a \in 0..(Len(rows) - 1) |->
        [b \in 0..(Len(rows) - 1) |-> Frac(design_gram(rows[a + 1], rows[b + 1]), 1)]]

\* slope.py lines 264-266: how the dispersion is obtained.  Pearson's X^2 is
\* a float64 sum divided by n - Xfeat.shape[1]; numpy divides by zero with a
\* warning, giving inf or nan.
dispersion_kind(n, k, dispersion) ==
    IF dispersion # None THEN "given"
    ELSE IF n - k = 0 THEN "nonfinite" ELSE "pearson"

\* slope.py line 269: cov_target * dispersion; the product with an estimated
\* dispersion is kept as the matrix it multiplies
scaled_cov(inverse, dispersion) ==
    IF dispersion = None THEN inverse
    ELSE [i \in DOMAIN inverse |-> [j \in DOMAIN inverse[i] |->
             FMul(inverse[i][j], Frac(dispersion[1], 1))]]

\* slope.py line 269: the returned tuple
slope_bundle(outcome, target, inverse, n, dispersion, alternatives) ==
    [outcome |-> outcome,
     value |-> IF outcome = "ok"
               THEN Some([observed_target |-> target,
                          cov_target |-> scaled_cov(inverse.inv, dispersion),
                          dispersion |-> dispersion_kind(n, ALen(target), dispersion),
                          alternatives |-> alternatives])
               ELSE None]

\* slope.py lines 232-245, features is None
slope_targets_active(active, unpenalized, overall, sign, Q, n, dispersion, empty_ok) ==
    slope_bundle(IF \E i \in DOMAIN active :
                       active[i] /\ slope_alternative(sign[i]) = "KeyError"
                 THEN "KeyError"
                 ELSE IF NRows(Q) # NCols(Q) THEN "LinAlgError"
                 ELSE inverse_outcome(CountTrue(overall), empty_ok),
                 Compress(Arange(ALen(overall)), overall),
                 IF NRows(Q) # NCols(Q) THEN [singular |-> TRUE, inv |-> <<>>]
                 ELSE linalg_inv(Q),
                 n, dispersion,
                 ListOf([k \in DOMAIN Compress(sign, active) |->
                            slope_alternative(Compress(sign, active)[k])])
                   \o Repeat("twosided", CountTrue(unpenalized)))

\* slope.py lines 247-262, features given
slope_targets_features(features_b, n, dispersion, empty_ok) ==
    slope_bundle(inverse_outcome(CountTrue(features_b), empty_ok),
                 Compress(Arange(ALen(features_b)), features_b),
                 linalg_inv(Qfeat(SortedList({i \in DOMAIN features_b : features_b[i]}))),
                 n, dispersion,
                 Repeat("twosided", CountTrue(features_b)))

\* randomized_slope.selected_targets(features, dispersion): the returned bundle
slope_selected_targets(features, dispersion, empty_ok) ==
    IF features = None
    THEN slope_targets_active(_active, _unpenalized, mask_or(_active, _unpenalized),
             selection_variable.sign,
             neg_score_rows(score_transform,
                 SortedList({i \in DOMAIN _active : _active[i] \/ _unpenalized[i]})),
             nobs, dispersion, empty_ok)
    ELSE slope_targets_features(features_mask(_overall, features[1]), nobs, dispersion,
                                empty_ok)

\* randomized_slope.selective_MLE lines 202-222 once the bundle is known:
\* the sampler attribute is read, then the bundle's locals
slope_mle_result(target, bundle, smp) ==
    IF target = "selected" /\ bundle.outcome # "ok"
    THEN [outcome |-> bundle.outcome, value |-> None]
    ELSE IF smp = None THEN [outcome |-> "AttributeError", value |-> None]
    ELSE IF target # "selected" THEN [outcome |-> "UnboundLocalError", value |-> None]
    ELSE [outcome |-> "ok",
          value |-> Some([selective_MLE_of |-> bundle.value[1].observed_target,
                          observed_opt_state |-> smp[1].initial_point])]

\* a query that consumes the sampler
Returned_dropping_sampler(op, args, res) ==
    /\ last' = [op |-> op, args |-> args, outcome |-> res.outcome, value |-> res.value]
    /\ sampler' = None
    /\ UNCHANGED <<ctor, _initial_omega, nsample, quad, initial_soln, _active,
                   _unpenalized, _overall, _selected, selection_variable,
                   observed_opt_state, num_opt_var, observed_score_state,
                   score_transform, opt_transform>>

\* a query changes nothing but the record of the last call
Returned(op, args, res) ==
    /\ last' = [op |-> op, args |-> args, outcome |-> res.outcome, value |-> res.value]
    /\ UNCHANGED <<ctor, _initial_omega, nsample, quad, fitted>>

slope_selected_targets_call(features, dispersion, empty_ok) ==
    /\ IF features = None /\ CountTrue(_active) = 0 THEN TRUE
       ELSE IF features # None /\ Len(features[1]) = 0 THEN TRUE ELSE empty_ok
    /\ Returned("selected_targets", [features |-> features, dispersion |-> dispersion],
                slope_selected_targets(features, dispersion, empty_ok))

slope_selective_MLE_call(target, features, empty_ok) ==
    /\ IF target = "selected" /\ features = None /\ CountTrue(_active) = 0 THEN TRUE
       ELSE IF target = "selected" /\ features # None /\ Len(features[1]) = 0 THEN TRUE
       ELSE empty_ok
    /\ Returned("selective_MLE", [target |-> target, features |-> features],
                slope_mle_result(target, slope_selected_targets(features, None, empty_ok),
                                 sampler))

\* summary with confidence_intervals left to draw a sample of its own
screening_summary_resampling(parameter, compute_intervals, smp) ==
    LET param == IF parameter = None THEN "zero" ELSE parameter[1]
    IN  IF smp = None THEN [outcome |-> "AttributeError", value |-> None]
        ELSE [outcome |-> "ok",
              value |-> Some([calls |->
                                 <<[fn |-> "sample", parameter |-> None, sample |-> 1],
                                   [fn |-> "coefficient_pvalues", parameter |-> Some(param),
                                    sample |-> 1]>>
                                 \o (IF param # "zero"
                                     THEN <<[fn |-> "coefficient_pvalues",
                                             parameter |-> Some("zero"), sample |-> 1]>>
                                     ELSE <<>>)
                                 \o (IF compute_intervals
                                     THEN <<[fn |-> "sample", parameter |-> None, sample |-> 2],
                                            [fn |-> "confidence_intervals",
                                             parameter |-> None, sample |-> 2]>>
                                     ELSE <<>>),
                              pvalues_is_pivots |-> (param = "zero"),
                              intervals |-> IF compute_intervals THEN Some(2) ELSE None])]

\* marginal_screening.summary lines 135-164: the calls made on the sampler,
\* in order, and what is returned.
screening_summary(parameter, compute_intervals, smp) ==
    LET param == IF parameter = None THEN "zero" ELSE parameter[1]
        pivots == <<[fn |-> "coefficient_pvalues", parameter |-> Some(param), sample |-> 1]>>
        pvals == IF param # "zero"
                 THEN <<[fn |-> "coefficient_pvalues", parameter |-> Some("zero"), sample |-> 1]>>
                 ELSE <<>>
        ints == IF compute_intervals
                THEN <<[fn |-> "confidence_intervals", parameter |-> None, sample |-> 1]>>
                ELSE <<>>
    IN  IF smp = None THEN [outcome |-> "AttributeError", value |-> None]
        ELSE [outcome |-> "ok",
              value |-> Some([calls |-> <<[fn |-> "sample", parameter |-> None,
                                           sample |-> 1]>> \o pivots \o pvals \o ints,
                              pvalues_is_pivots |-> (param = "zero"),
                              intervals |-> IF compute_intervals THEN Some(1) ELSE None])]

\* marginal_screening.selective_MLE lines 182-186
screening_mle_result(smp) ==
    IF smp = None THEN [outcome |-> "AttributeError", value |-> None]
    ELSE [outcome |-> "ok",
          value |-> Some([observed_opt_state |-> smp[1].initial_point])]

\* marginal_screening.multivariate_targets lines 192-201, features a mask
screening_multivariate_targets(features, empty_ok) ==
    Bundle(inverse_outcome(CountTrue(features), empty_ok),
           Compress(Arange(ALen(features)), features),
           Repeat("twosided", CountTrue(features)))

\* marginal_screening.marginal_targets lines 207-216, features a mask
screening_marginal_targets(features) ==
    Bundle("ok", Compress(Arange(ALen(features)), features),
           Repeat("twosided", CountTrue(features)))

\* the feature lists callers pass: every subset, in increasing order
FeatureLists(p) == {SortedList(S) : S \in SUBSET (0..(p - 1))}
FeatureArgs(p) == {None} \cup {Some(f) : f \in FeatureLists(p)}
FeatureMasks(p) == [0..(p - 1) -> BOOLEAN]

----------------------------------------------------------------------------
\* Simes_selection.py.  Statistics are integers in units of 0.5; p-values and
\* levels are binary floating-point numbers, modelled as multiples of
\* 1/PUnit (twelve fractional bits) with every product and quotient rounded
\* to the nearest multiple, in the order the code computes them.  Halving
\* and doubling are exact, as in binary floating point.

PUnit == 4096

\* n / d rounded to the nearest integer, n >= 0, d > 0
Round(n, d) == (2 * n + d) \div (2 * d)

\* a / b for numbers a, b that are exact in floating point (small integers)
fl_div(a, b) == Round(a * PUnit, b)

\* x * y for x, y in units of 1/PUnit
fl_mul(x, y) == Round(x * y, PUnit)

\* 2 * (1. - normal.cdf(t)) for t >= 0 in units of 0.5, rounded to 1/PUnit:
\* 1, 0.6171, 0.3173, 0.1336, 0.0455, 0.0124, 0.0027, 0.0005, 0.0001
two_sided_pvalue(t) ==
    IF t = 0 THEN 4096 ELSE IF t = 1 THEN 2528 ELSE IF t = 2 THEN 1300
    ELSE IF t = 3 THEN 547 ELSE IF t = 4 THEN 186 ELSE IF t = 5 THEN 51
    ELSE IF t = 6 THEN 11 ELSE IF t = 7 THEN 2 ELSE 0

\* np.argsort(a): every ordering of the indices by ascending value
RECURSIVE ArgSortAsc(_, _)
ArgSortAsc(a, rest) ==
    IF rest = {} THEN {<<>>}
    ELSE LET m == MinOf({a[i] : i \in rest})
             tops == {i \in rest : a[i] = m}
         IN  UNION {{<<i>> \o s : s \in ArgSortAsc(a, rest \ {i})} : i \in tops}
np_argsort(a) == {FromList(s) : s \in ArgSortAsc(a, DOMAIN a)}

\* a[:n]
Take(a, n) == [i \in 0..(n - 1) |-> a[i]]

\* Simes_selection.py line 15: np.max(indices[... <= 0])
bh_order_sig(hits) == MaxOf(hits)

\* BH_q lines 14-20 given the sorted p-values, the result of argsort and the
\* ranks (0-based) at which p_sorted - level * (k + 1) / (2 m) <= 0
BH_q_of(p_sorted, indices_order, hits) ==
    IF hits = {} THEN [outcome |-> "ok", value |-> None]
    ELSE [outcome |-> "ok",
          value |-> Some([p_sorted |-> Take(p_sorted, bh_order_sig(hits)),
                          sig_pvalues |-> Take(indices_order, bh_order_sig(hits))])]

BH_q_sorted(p_sorted, indices_order, level) ==
    BH_q_of(p_sorted, indices_order,
            {k \in DOMAIN p_sorted :
                p_sorted[k] - Round(level * (k + 1), 2 * ALen(p_sorted)) <= 0})

\* BH_q(p_value, level); indices_order is what np.argsort(p_value) returns
BH_q(p_value, indices_order, level) == BH_q_sorted(np_sort(p_value), indices_order, level)

\* simes_selection line 66: indices[p_val_randomized <= ((arange(p) + 1.)/(2*p)) * alpha]
simes_t_0(p_val_randomized, alpha) ==
    Compress(Arange(ALen(p_val_randomized)),
             [k \in DOMAIN p_val_randomized |->
                 p_val_randomized[k]
                    <= fl_mul(fl_div(k + 1, 2 * ALen(p_val_randomized)), alpha)])

\* simes_selection line 56: np.min((p / (np.arange(p) + 1.)) * p_val_randomized)
simes_p_randomized(p_val_randomized) ==
    MinOf({fl_mul(fl_div(ALen(p_val_randomized), k + 1), p_val_randomized[k]) :
              k \in DOMAIN p_val_randomized})

\* simes_selection line 60: indices_order[p_val_randomized <= alpha/2]
simes_significant(p_val_randomized, indices_order, alpha) ==
    Compress(indices_order,
             [k \in DOMAIN p_val_randomized |-> 2 * p_val_randomized[k] <= alpha])

\* simes_selection lines 62-77 once significant and t_0 are known
simes_return(T_stats, indices_order, significant, t_0) ==
    IF ALen(significant) = 0 \/ ALen(t_0) = 0
    THEN [outcome |-> "IndexError", value |-> None]
    ELSE [outcome |-> "ok",
          value |-> Some([i_0 |-> significant[0],
                          J |-> IF t_0[0] > 0 THEN Take(indices_order, t_0[0])
                                ELSE FromList(<<-1>>),
                          t_0 |-> t_0[0],
                          sign |-> Sign(T_stats[significant[0]]),
                          T_stats_inf |->
                              IF t_0[0] > 0
                              THEN FromList([k \in 1..(t_0[0] + 1) |->
                                      IF k <= t_0[0] THEN T_stats[indices_order[k - 1]]
                                      ELSE T_stats[significant[0]]])
                              ELSE FromList(<<T_stats[significant[0]]>>)])]

\* simes_selection lines 56-81 given the sorted randomized p-values
simes_selection_sorted(T_stats, p_val_randomized, indices_order, alpha) ==
    IF 2 * simes_p_randomized(p_val_randomized) <= alpha
    THEN simes_return(T_stats, indices_order,
                      simes_significant(p_val_randomized, indices_order, alpha),
                      simes_t_0(p_val_randomized, alpha))
    ELSE [outcome |-> "ok", value |-> None]

\* lines 49-53: the two-sided p-values of T_stats + perturb
randomized_pvalues(T_stats, perturb) ==
    [i \in DOMAIN T_stats |-> two_sided_pvalue(Abs(T_stats[i] + perturb[i]))]

\* simes_selection(X, y, alpha) for the draw perturb of the randomizer;
\* T_stats is X.T.dot(y), indices_order what np.argsort returns at line 53
simes_selection(T_stats, perturb, indices_order, alpha) ==
    simes_selection_sorted(T_stats, np_sort(randomized_pvalues(T_stats, perturb)),
                           indices_order, alpha)

----------------------------------------------------------------------------
\* Spec: any sequence of fit calls on one instance of either class.

Init ==
    \/ \E Xty \in Vectors(NFeature, MaxMag) :
       \E w \in 0..MaxWeight :
       \E perturb \in PerturbArgs(NFeature) :
          slope_init(Xty, NFeature + 1, w, 1, perturb)
    \/ \E observed_data \in Vectors(NFeature, MaxMag) :
       \E thr \in ConstVectors(NFeature, 0, MaxThreshold) :
       \E perturb \in PerturbArgs(NFeature) :
          screening_init(observed_data, thr, 1, perturb)

\* the values the randomizer draws: one (unused) when the fit does not sample
Draws(perturb) ==
    IF perturb = None /\ _initial_omega = None
    THEN Perturbs(nfeature) ELSE {Zeros(nfeature)}

SlopeFit ==
    /\ kind = "slope"
    /\ \E perturb \in PerturbArgs(nfeature) :
       \E drawn \in Draws(perturb) :
       \E indices \in slope_indices(perturb, drawn) :
       \E built \in BOOLEAN :
          slope_fit(perturb, indices, drawn, built)

ScreeningFit ==
    /\ kind = "screening"
    /\ \E perturb \in PerturbArgs(nfeature) :
       \E drawn \in Draws(perturb) :
       \E empty_ok \in BOOLEAN :
          screening_fit(perturb, drawn, empty_ok)

Next == SlopeFit \/ ScreeningFit

Spec == Init /\ [][Next]_vars

----------------------------------------------------------------------------
\* SpecCluster: one fit of a randomized_slope, over every solution vector
\* of ClusterLen coordinates (no penalty, perturbation zero: the solution is
\* the instance's X.T.dot(y)).

InitCluster ==
    \E Xty \in Vectors(ClusterLen, ClusterMag) :
       slope_init(Xty, ClusterLen, 0, 1, Some(Zeros(ClusterLen)))

FitCluster ==
    /\ last.op = "__init__"
    /\ \E indices \in slope_indices(None, Zeros(nfeature)) :
       \E built \in BOOLEAN :
          slope_fit(None, indices, Zeros(nfeature), built)

NextCluster == FitCluster

SpecCluster == InitCluster /\ [][NextCluster]_vars

----------------------------------------------------------------------------
\* SpecScreen: one fit of a marginal_screening, over the observed data, the
\* thresholds, the randomizer scales and the perturbations of the fit.

InitScreen ==
    \E observed_data \in Vectors(NFeature, MaxVal) :
    \E thr \in ConstVectors(NFeature, 0, MaxThreshold) :
    \E scale \in 1..MaxScale :
       screening_init(observed_data, thr, scale, None)

FitScreen ==
    /\ last.op = "__init__"
    /\ ScreeningFit

NextScreen == FitScreen

SpecScreen == InitScreen /\ [][NextScreen]_vars

----------------------------------------------------------------------------
\* SpecQuery: an instance constructed with a perturbation, fitted once, then
\* any sequence of inference calls.

InitQuery ==
    \/ \E Xty \in Vectors(NFeature, MaxMag) :
       \E w \in 0..MaxWeight :
          slope_init(Xty, NFeature + 1, w, 1, Some(Zeros(NFeature)))
    \/ \E observed_data \in Vectors(NFeature, MaxMag) :
       \E thr \in ConstVectors(NFeature, 0, MaxThreshold) :
          screening_init(observed_data, thr, 1, Some(Zeros(NFeature)))

FitOnce ==
    /\ last.op = "__init__"
    /\ \/ /\ kind = "slope"
          /\ \E indices \in slope_indices(None, Zeros(nfeature)) :
             \E built \in BOOLEAN :
                slope_fit(None, indices, Zeros(nfeature), built)
       \/ /\ kind = "screening"
          /\ \E empty_ok \in BOOLEAN :
                screening_fit(None, Zeros(nfeature), empty_ok)

SlopeSelectedTargets ==
    /\ kind = "slope"
    /\ last.op # "__init__"
    /\ \E features \in FeatureArgs(nfeature) :
       \E empty_ok \in BOOLEAN :
          slope_selected_targets_call(features, None, empty_ok)

SlopeSelectiveMLE ==
    /\ kind = "slope"
    /\ last.op # "__init__"
    /\ \E target \in {"selected", "full"} :
       \E features \in FeatureArgs(nfeature) :
       \E empty_ok \in BOOLEAN :
          slope_selective_MLE_call(target, features, empty_ok)

ScreeningSummary ==
    /\ kind = "screening"
    /\ last.op # "__init__"
    /\ \E parameter \in {None, Some("zero"), Some("nonzero")} :
       \E compute_intervals \in BOOLEAN :
          Returned("summary",
                   [parameter |-> parameter, compute_intervals |-> compute_intervals],
                   screening_summary(parameter, compute_intervals, sampler))

ScreeningSelectiveMLE ==
    /\ kind = "screening"
    /\ last.op # "__init__"
    /\ Returned("selective_MLE", None, screening_mle_result(sampler))

ScreeningMultivariateTargets ==
    /\ kind = "screening"
    /\ last.op # "__init__"
    /\ \E features \in FeatureMasks(nfeature) :
       \E empty_ok \in BOOLEAN :
          /\ IF CountTrue(features) = 0 THEN TRUE ELSE empty_ok
          /\ Returned("multivariate_targets", [features |-> features],
                      screening_multivariate_targets(features, empty_ok))

ScreeningMarginalTargets ==
    /\ kind = "screening"
    /\ last.op # "__init__"
    /\ \E features \in FeatureMasks(nfeature) :
          Returned("marginal_targets", [features |-> features],
                   screening_marginal_targets(features))

NextQuery ==
    \/ FitOnce
    \/ SlopeSelectedTargets
    \/ SlopeSelectiveMLE
    \/ ScreeningSummary
    \/ ScreeningSelectiveMLE
    \/ ScreeningMultivariateTargets
    \/ ScreeningMarginalTargets

SpecQuery == InitQuery /\ [][NextQuery]_vars

----------------------------------------------------------------------------
(* SpecTargets: a randomized_slope instance on a design with n = p or      *)
(* n = p + 1 rows is fitted once and then asked for its selected targets,  *)
(* with the dispersion given or left to be estimated.                      *)

Dispersions == {None} \cup {Some(d) : d \in 1..MaxDispersion}

InitTargets ==
    \E Xty \in Vectors(NFeature, MaxMag) :
    \E n \in {NFeature, NFeature + 1} :
    \E w \in 0..MaxWeight :
       slope_init(Xty, n, w, 1, Some(Zeros(NFeature)))

FitTargets ==
    /\ last.op = "__init__"
    /\ \E indices \in slope_indices(None, Zeros(nfeature)) :
       \E built \in BOOLEAN :
          slope_fit(None, indices, Zeros(nfeature), built)

SelectedTargets ==
    /\ last.op # "__init__"
    /\ \E features \in FeatureArgs(nfeature) :
       \E dispersion \in Dispersions :
       \E empty_ok \in BOOLEAN :
          slope_selected_targets_call(features, dispersion, empty_ok)

NextTargets == FitTargets \/ SelectedTargets

SpecTargets == InitTargets /\ [][NextTargets]_vars

----------------------------------------------------------------------------
\* SpecSimes: the functions of Simes_selection.py called on one data set,
\* with one draw of the randomizer, at increasing levels.

\* the levels tried: the quarters, and the level at which the data sit
\* exactly on the boundary of the Simes test
Levels(p_val_randomized) ==
    ({a * (PUnit \div 4) : a \in 1..MaxAlphaQuarters}
        \cup {2 * simes_p_randomized(p_val_randomized)}) \ {0}

Loaded(T_stats, perturb, indices_order) ==
    /\ kind = "simes"
    /\ inputs = [T_stats |-> T_stats, perturb |-> perturb,
                 p_value |-> randomized_pvalues(T_stats, perturb),
                 indices_order |-> indices_order]
    /\ nfeature = ALen(T_stats)
    /\ loglike = Unset
    /\ nobs = Unset
    /\ feature_weights = Unset
    /\ threshold = Unset
    /\ prec = Unset
    /\ _initial_omega = None
    /\ nsample = 0
    /\ quad = None
    /\ initial_soln = Unset
    /\ _active = Unset
    /\ _unpenalized = Unset
    /\ _overall = Unset
    /\ _selected = Unset
    /\ selection_variable = Unset
    /\ observed_opt_state = Unset
    /\ num_opt_var = 0
    /\ observed_score_state = Unset
    /\ score_transform = Unset
    /\ opt_transform = None
    /\ sampler = None
    /\ last = [op |-> "load", args |-> [level |-> 0], outcome |-> "ok", value |-> None]

InitSimes ==
    \E T_stats \in Vectors(SimesLen, SimesMag) :
    \E perturb \in ConstVectors(SimesLen, 0, 1) :
    \E indices_order \in np_argsort(randomized_pvalues(T_stats, perturb)) :
       Loaded(T_stats, perturb, indices_order)

Called(op, level, res) ==
    /\ last' = [op |-> op, args |-> [level |-> level], outcome |-> res.outcome,
                value |-> res.value]
    /\ UNCHANGED <<ctor, _initial_omega, nsample, quad, fitted>>

SimesSelection ==
    /\ kind = "simes"
    /\ last.op \in {"load", "simes_selection"}
    /\ \E alpha \in Levels(np_sort(inputs.p_value)) :
          /\ alpha > last.args.level
          /\ Called("simes_selection", alpha,
                    simes_selection(inputs.T_stats, inputs.perturb,
                                    inputs.indices_order, alpha))

BHq ==
    /\ kind = "simes"
    /\ last.op = "load"
    /\ \E level \in Levels(np_sort(inputs.p_value)) :
          Called("BH_q", level, BH_q(inputs.p_value, inputs.indices_order, level))

NextSimes == SimesSelection \/ BHq

SpecSimes == InitSimes /\ [][NextSimes]_vars

----------------------------------------------------------------------------
\* Properties.

\* the magnitudes of the solution, each once
Magnitudes == {Abs(initial_soln[i]) : i \in DOMAIN initial_soln}

\* the number of coordinates of the solution with magnitude m
CountMag(m) == Cardinality({i \in DOMAIN initial_soln : Abs(initial_soln[i]) = m})

\* C1: after randomized_slope.fit on a solution with a nonzero coordinate,
\* opt_linear is installed and has one column per cluster of tied nonzero
\* magnitude, that is num_opt_var = len(observed_opt_state) columns, also
\* when no coordinate of the solution is zero.
C1_ClusterColumns ==
    (last.op = "fit" /\ Magnitudes # {0}) =>
        /\ num_opt_var = ALen(observed_opt_state)
        /\ num_opt_var = Cardinality(Magnitudes \ {0})
        /\ opt_transform # None
        /\ NCols(opt_transform[1].linear) = num_opt_var

\* the case C1 fails on: every coordinate nonzero, two clusters, one column
C1_AllNonzero ==
    /\ last.op = "fit"
    /\ 0 \notin Magnitudes
    /\ num_opt_var = 2
    /\ opt_transform # None
    /\ NCols(opt_transform[1].linear) = 1

\* C2: randomized_slope.fit sets observed_opt_state to the distinct nonzero
\* magnitudes of the solution in strictly decreasing order and num_opt_var
\* to their count; every entry is > 0 and num_opt_var <= p; a solution with
\* magnitudes 3, 3, 2, 0 gives observed_opt_state = [3, 2], num_opt_var = 2.
C2_ObservedOptState ==
    last.op = "fit" =>
        /\ num_opt_var = ALen(observed_opt_state)
        /\ num_opt_var <= nfeature
        /\ DOMAIN observed_opt_state = 0..(num_opt_var - 1)
        /\ \A k \in DOMAIN observed_opt_state : observed_opt_state[k] > 0
        /\ \A k \in DOMAIN observed_opt_state :
              k + 1 < num_opt_var => observed_opt_state[k] > observed_opt_state[k + 1]
        /\ {observed_opt_state[k] : k \in DOMAIN observed_opt_state} = Magnitudes \ {0}
        /\ (nfeature = 4 /\ CountMag(3) = 2 /\ CountMag(2) = 1 /\ CountMag(0) = 1) =>
              (observed_opt_state = FromList(<<3, 2>>) /\ num_opt_var = 2)

C2_Example ==
    /\ last.op = "fit"
    /\ nfeature = 4
    /\ CountMag(3) = 2 /\ CountMag(2) = 1 /\ CountMag(0) = 1
    /\ observed_opt_state = FromList(<<3, 2>>)
    /\ num_opt_var = 2

\* Z = observed_data + omega for the perturbation the last fit stored
ScreenZ ==
    [i \in DOMAIN observed_score_state |-> _initial_omega[1][i] - observed_score_state[i]]

\* the selected coordinates in increasing order
SelectedRows == SortedList({i \in DOMAIN _selected : _selected[i]})

\* C3: marginal_screening.fit selects coordinate i iff |Z_i| > threshold_i
\* (a tie is not selected); the optimization state of a selected i is
\* |Z_i| - threshold_i > 0 and its sign is sign(Z_i).  In units of 0.5: with
\* threshold 2, Z = 1 is not selected and Z = 4 is selected with state 2 and
\* sign +1.
C3_SoftThreshold ==
    (kind = "screening" /\ last.op = "fit") =>
        /\ \A i \in DOMAIN _selected : _selected[i] <=> Abs(ScreenZ[i]) > threshold[i]
        /\ ALen(observed_opt_state) = Len(SelectedRows)
        /\ \A c \in 1..Len(SelectedRows) :
              /\ observed_opt_state[c - 1] =
                    Abs(ScreenZ[SelectedRows[c]]) - threshold[SelectedRows[c]]
              /\ observed_opt_state[c - 1] > 0
              /\ selection_variable.sign[SelectedRows[c]] = Sign(ScreenZ[SelectedRows[c]])
              /\ (threshold[SelectedRows[c]] = 2 /\ ScreenZ[SelectedRows[c]] = 4) =>
                    (observed_opt_state[c - 1] = 2
                       /\ selection_variable.sign[SelectedRows[c]] = 1)
        /\ \A i \in DOMAIN _selected :
              /\ (threshold[i] = 2 /\ ScreenZ[i] = 1) => ~_selected[i]
              /\ (threshold[i] = 2 /\ ScreenZ[i] = 4) => _selected[i]

C3_Example ==
    /\ kind = "screening"
    /\ last.op = "fit"
    /\ \E i \in DOMAIN _selected :
          threshold[i] = 2 /\ ScreenZ[i] = 4 /\ _selected[i]
    /\ \E i \in DOMAIN _selected :
          threshold[i] = 2 /\ Abs(ScreenZ[i]) = 2 /\ ~_selected[i]

\* (opt_linear . observed_opt_state)[i]
LinearImage(i) ==
    ISum([c \in DOMAIN observed_opt_state |->
             opt_transform[1].linear[i][c] * observed_opt_state[c]], num_opt_var)

\* C4: after marginal_screening.fit, for every coordinate i, selected or not,
\* observed_score_state[i] + (opt_linear . observed_opt_state)[i] +
\* opt_offset[i] is the perturbation omega[i] the fit used.
C4_AffineReconstruction ==
    (kind = "screening" /\ last.op = "fit") =>
        \A i \in DOMAIN observed_score_state :
            observed_score_state[i] + LinearImage(i) + opt_transform[1].offset[i]
                = _initial_omega[1][i]

\* the part of C4 the code satisfies: the selected coordinates
C4_SelectedRows ==
    /\ kind = "screening"
    /\ last.op = "fit"
    /\ \E i \in DOMAIN _selected :
          /\ ~_selected[i]
          /\ observed_score_state[i] + LinearImage(i) + opt_transform[1].offset[i]
                # _initial_omega[1][i]
    /\ \E i \in DOMAIN _selected :
          /\ _selected[i]
          /\ observed_score_state[i] + LinearImage(i) + opt_transform[1].offset[i]
                = _initial_omega[1][i]

\* C5: after fit of either procedure, for every coordinate i the selection
\* sign is nonzero iff the coordinate is flagged in 'variables' iff it is in
\* the active set (nonzero in the solution); for marginal screening
\* num_opt_var is the number of selected coordinates.
C5_SignsMatchActive ==
    last.op = "fit" =>
        /\ \A i \in 0..(nfeature - 1) :
              /\ (selection_variable.sign[i] # 0) <=> selection_variable.variables[i]
              /\ selection_variable.variables[i] <=> (initial_soln[i] # 0)
              /\ selection_variable.variables[i] <=>
                    (IF kind = "slope" THEN _active[i] ELSE _selected[i])
        /\ kind = "screening" => num_opt_var = CountTrue(_selected)

C5_MixedSelection ==
    /\ last.op = "fit"
    /\ kind = "screening"
    /\ num_opt_var = 1
    /\ \E i \in 0..(nfeature - 1) : selection_variable.sign[i] # 0
    /\ \E i \in 0..(nfeature - 1) :
          selection_variable.sign[i] = 0 /\ ScreenZ[i] # 0

\* C6: in any sequence of fit calls on one instance, a fit works with its
\* perturb argument when one is passed and otherwise with the perturbation
\* already stored; the randomizer is sampled only when nothing is stored, so
\* at most once per instance, and a fit without perturb after an earlier fit
\* keeps the stored perturbation.
C6_PerturbationReuse ==
    [][last'.op = "fit" =>
        /\ last'.args # None =>
              (_initial_omega' = last'.args /\ nsample' = nsample)
        /\ (last'.args = None /\ _initial_omega # None) =>
              (_initial_omega' = _initial_omega /\ nsample' = nsample)
        /\ (last'.args = None /\ last.op = "fit") =>
              (_initial_omega' = _initial_omega /\ nsample' = nsample)
        /\ nsample' # nsample =>
              (nsample' = nsample + 1 /\ last'.args = None /\ _initial_omega = None)
        /\ nsample' <= 1
        /\ _initial_omega' # None
        /\ kind = "slope" =>
              quad' = Some([i \in 0..(nfeature - 1) |-> -_initial_omega'[1][i]])
        /\ kind = "screening" =>
              \A i \in 0..(nfeature - 1) :
                 _selected'[i] <=>
                    Abs(_initial_omega'[1][i] - observed_score_state[i]) > threshold[i]
    ]_vars

\* a draw by an earlier fit, then a fit with a perturbation of its own
C6_DrawnThenSupplied ==
    /\ last.op = "fit"
    /\ nsample = 1
    /\ last.args # None
    /\ _initial_omega = last.args

\* C7: after fit, every inference call (selective_MLE, selected_targets,
\* summary, multivariate_targets, marginal_targets) leaves
\* selection_variable, observed_opt_state, observed_score_state,
\* opt_transform, the stored perturbation and the sampler as they were.
C7_QueriesKeepFittedState ==
    [][last'.op \notin {"__init__", "fit"} =>
        UNCHANGED <<selection_variable, observed_opt_state, observed_score_state,
                    opt_transform, _initial_omega, sampler>>
    ]_vars

C7_QueryAnswered ==
    /\ last.op = "selective_MLE"
    /\ last.outcome = "ok"
    /\ sampler # None
    /\ num_opt_var > 0

\* C8: a fit whose active set is empty ends in the degenerate-selection
\* error (numpy's LinAlgError for a singular matrix is counted as that
\* error); it neither returns normally nor fails with another error.
C8_DegenerateSelection ==
    (last.op = "fit" /\ \A i \in DOMAIN initial_soln : initial_soln[i] = 0) =>
        last.outcome \in {"DegenerateSelection", "LinAlgError"}

ActiveRows == SortedList({i \in DOMAIN _active : _active[i]})

\* C10: randomized_slope.selected_targets returns one alternative per target
\* entry: without features, entry j is 'greater' when the sign of the j-th
\* active feature is +1 and 'less' when it is -1; with features supplied,
\* every entry is 'twosided'; the list is as long as observed_target.
C10_Alternatives ==
    (last.op = "selected_targets" /\ last.outcome = "ok") =>
        /\ Len(last.value[1].alternatives) = ALen(last.value[1].observed_target)
        /\ IF last.args.features = None
           THEN /\ Len(last.value[1].alternatives) = Len(ActiveRows)
                /\ \A j \in 1..Len(ActiveRows) :
                      /\ selection_variable.sign[ActiveRows[j]] = 1 =>
                            last.value[1].alternatives[j] = "greater"
                      /\ selection_variable.sign[ActiveRows[j]] = -1 =>
                            last.value[1].alternatives[j] = "less"
                      /\ selection_variable.sign[ActiveRows[j]] \in {1, -1}
           ELSE /\ Len(last.value[1].alternatives) = Len(last.args.features[1])
                /\ \A j \in 1..Len(last.value[1].alternatives) :
                      last.value[1].alternatives[j] = "twosided"

C10_BothSigns ==
    /\ last.op = "selected_targets"
    /\ last.outcome = "ok"
    /\ last.args.features = None
    /\ last.value[1].alternatives = <<"greater", "less">>

\* the indices a simes_selection call returned: i_0 and the entries of J;
\* empty when it returned None
SimesIndexSet(call) ==
    IF call.value = None THEN {}
    ELSE {call.value[1].i_0} \cup {call.value[1].J[k] : k \in DOMAIN call.value[1].J}

\* C11: for fixed data and a fixed perturbation, the index set simes_selection
\* returns at a level alpha1 is never a strict superset of the one it returns
\* at a larger level alpha2.
C11_MonotoneInAlpha ==
    [][(/\ last.op = "simes_selection" /\ last.outcome = "ok"
        /\ last'.op = "simes_selection" /\ last'.outcome = "ok"
        /\ last.args.level < last'.args.level) =>
          ~(/\ SimesIndexSet(last') \subseteq SimesIndexSet(last)
            /\ SimesIndexSet(last') # SimesIndexSet(last))
    ]_vars

\* the sorted randomized p-values of the loaded data
SortedRandomized == np_sort(inputs.p_value)

\* the Simes test at the level of the last call, as line 56 computes it
SimesRejects == 2 * simes_p_randomized(SortedRandomized) <= last.args.level

\* C18: whenever the Simes test rejects, simes_selection raises no index
\* error and returns as i_0 the index of the smallest randomized p-value;
\* when the test does not reject it returns None.
C18_SimesIndexSafe ==
    last.op = "simes_selection" =>
        /\ last.outcome = "ok"
        /\ SimesRejects =>
              /\ last.value # None
              /\ inputs.p_value[last.value[1].i_0] = SortedRandomized[0]
        /\ ~SimesRejects => last.value = None

\* the test rejects on the boundary and no rank passes the comparison of line 66
C18_BoundaryReject ==
    /\ last.op = "simes_selection"
    /\ SimesRejects
    /\ last.outcome = "IndexError"

\* the sorted p-values BH_q works on and the ranks (from 1) that pass its sieve
SortedPvalues == np_sort(inputs.p_value)
BHRanks ==
    {k \in 1..ALen(SortedPvalues) :
        SortedPvalues[k - 1] - Round(last.args.level * k, 2 * ALen(SortedPvalues)) <= 0}

\* C15: BH_q returns None iff no rank k has p_(k) <= level * k / (2 m);
\* otherwise, with K the largest such rank, it returns the K smallest
\* p-values and the K indices at which they occur.
C15_BHq ==
    last.op = "BH_q" =>
        /\ last.outcome = "ok"
        /\ (last.value = None) <=> (BHRanks = {})
        /\ last.value # None =>
              /\ last.value[1].p_sorted = Take(SortedPvalues, MaxOf(BHRanks))
              /\ ALen(last.value[1].sig_pvalues) = MaxOf(BHRanks)
              /\ \A k \in DOMAIN last.value[1].sig_pvalues :
                    inputs.p_value[last.value[1].sig_pvalues[k]] = SortedPvalues[k]

\* only the smallest p-value passes and nothing is declared significant
C15_OneSignificant ==
    /\ last.op = "BH_q"
    /\ BHRanks = {1}
    /\ last.value # None
    /\ ALen(last.value[1].p_sorted) = 0

\* The rows of the active set, as the features argument that names them
ActiveFeatures == SortedList({i \in DOMAIN _active : _active[i]})

\* C12: selected_targets with no dispersion supplied, on a design whose
\* number of rows equals the number of target features, ends in the
\* DegenerateSelection error (any error outcome is accepted here) instead of
\* returning a bundle scaled by a non-finite dispersion.
C12_DegenerateSelection ==
    (/\ kind = "slope"
     /\ last.op = "selected_targets"
     /\ last.args.dispersion = None
     /\ \/ last.args.features = None /\ CountTrue(_active) = nobs
        \/ last.args.features # None /\ Len(last.args.features[1]) = nobs)
       => last.outcome # "ok"

\* C12 case: the bundle came back with a dispersion that is a division by zero
C12_NonFiniteDispersion ==
    /\ kind = "slope"
    /\ last.op = "selected_targets"
    /\ last.args.dispersion = None
    /\ last.outcome = "ok"
    /\ last.value[1].dispersion = "nonfinite"

\* C16: with the dispersion d given, selected_targets returns d times the
\* inverse of the weighted Gram matrix of the target columns (here d times
\* the identity), the same for features = None as for features naming the
\* active set.
C16_CovTarget ==
    (/\ kind = "slope"
     /\ last.op = "selected_targets"
     /\ last.outcome = "ok"
     /\ last.args.dispersion # None
     /\ \/ last.args.features = None
        \/ last.args.features = Some(ActiveFeatures))
       => last.value[1].cov_target
            = FScaledIdentity(CountTrue(_active), Frac(last.args.dispersion[1], 1))

\* C16 case: features = None on a non-empty active set, dispersion given
C16_ActiveTargets ==
    /\ kind = "slope"
    /\ last.op = "selected_targets"
    /\ last.outcome = "ok"
    /\ last.args.dispersion # None
    /\ last.args.features = None
    /\ CountTrue(_active) > 0
    /\ last.value[1].cov_target
         # FScaledIdentity(CountTrue(_active), Frac(last.args.dispersion[1], 1))

\* C13: selective_MLE with target = 'full' on an instance that has a sampler
\* returns an estimate.
C13_FullTarget ==
    (/\ kind = "slope"
     /\ last.op = "selective_MLE"
     /\ last.args.target = "full"
     /\ sampler # None)
       => last.outcome = "ok"

\* C13 case: target = 'full', sampler present, admissible features
C13_FullTargetUnbound ==
    /\ kind = "slope"
    /\ last.op = "selective_MLE"
    /\ last.args.target = "full"
    /\ sampler # None
    /\ last.outcome = "UnboundLocalError"

\* The number of calls of fn in a summary's call trace
CallCount(calls, fn) == Cardinality({i \in DOMAIN calls : calls[i].fn = fn})

\* C17: a summary call draws exactly one sample, first, and hands that sample
\* to every coefficient_pvalues and confidence_intervals call; it calls
\* coefficient_pvalues once when the parameter is all zeros (pvalues is then
\* the pivots) and twice otherwise, the second time at parameter zero; it
\* calls confidence_intervals iff compute_intervals, and intervals is None
\* otherwise.
C17_SummaryCalls ==
    (kind = "screening" /\ last.op = "summary" /\ last.outcome = "ok") =>
        /\ last.value[1].calls[1].fn = "sample"
        /\ CallCount(last.value[1].calls, "sample") = 1
        /\ \A i \in DOMAIN last.value[1].calls :
              last.value[1].calls[i].sample = last.value[1].calls[1].sample
        /\ last.value[1].calls[2].fn = "coefficient_pvalues"
        /\ IF last.args.parameter \in {None, Some("zero")}
           THEN /\ CallCount(last.value[1].calls, "coefficient_pvalues") = 1
                /\ last.value[1].calls[2].parameter = Some("zero")
                /\ last.value[1].pvalues_is_pivots
           ELSE /\ CallCount(last.value[1].calls, "coefficient_pvalues") = 2
                /\ last.value[1].calls[2].parameter = last.args.parameter
                /\ last.value[1].calls[3].fn = "coefficient_pvalues"
                /\ last.value[1].calls[3].parameter = Some("zero")
                /\ ~last.value[1].pvalues_is_pivots
        /\ CallCount(last.value[1].calls, "confidence_intervals")
              = (IF last.args.compute_intervals THEN 1 ELSE 0)
        /\ (last.value[1].intervals = None) <=> ~last.args.compute_intervals
        /\ last.value[1].intervals # None
              => last.value[1].intervals[1] = last.value[1].calls[1].sample

\* C17 case: a nonzero parameter with intervals: four calls on the sampler
C17_FullSummary ==
    /\ kind = "screening"
    /\ last.op = "summary"
    /\ last.outcome = "ok"
    /\ last.args.parameter = Some("nonzero")
    /\ last.args.compute_intervals
    /\ Len(last.value[1].calls) = 4

====
